---- MODULE Spec2Model ----
(***************************************************************************)
(* Model of Class4/network.py: a sigmoid multilayer perceptron trained by  *)
(* full-batch gradient descent (Network.__init__, feedforward, SGD,        *)
(* backprop, evaluate, cost_derivative).                                   *)
(*                                                                         *)
(* Numbers.  A float v is represented by the integer nearest to v * One    *)
(* (fixed point, One = 1.0).  Products are rescaled by One and rounded to  *)
(* nearest; sigmoid is the true logistic function tabulated at that        *)
(* resolution, so it saturates at 0 and 1 as float64 does.                 *)
(*                                                                         *)
(* Arrays.  A numpy 2-d array is a sequence of rows.  Elementwise numpy    *)
(* operators broadcast (an axis of length 1 is stretched); np.dot requires *)
(* matching inner dimensions.  An operation numpy refuses (ValueError)     *)
(* yields Err, which every array operation propagates: the model of the    *)
(* exception unwinding the expression.                                     *)
(***************************************************************************)
EXTENDS Integers, Sequences, FiniteSets, TLC

\* ------------------------------------------------------------------ bounds
\* Longest training set enumerated.
MaxN == 2
\* Number of passes of the while loop explored (the code has no such cap).
MaxEpochs == 3

\* ------------------------------------------------------------ fixed point
\* The float 1.0.
One == 8

Abs(n) == IF n < 0 THEN -n ELSE n
Max(a, b) == IF a >= b THEN a ELSE b

\* n / d rounded to the nearest integer, halves away from zero (d > 0).
RDiv(n, d) == IF n >= 0 THEN (2 * n + d) \div (2 * d)
                        ELSE -((2 * (-n) + d) \div (2 * d))

\* a * b of two fixed-point numbers.
FMul(a, b) == RDiv(a * b, One)
FAdd(a, b) == a + b
FSub(a, b) == a - b

\* round(One / (1 + exp(-z / One))) for z = -22 .. 22.
SigmoidTable ==
  << 0, 1, 1, 1, 1, 1, 1, 1, 1, 1, 1, 2, 2, 2, 2, 2, 3, 3, 3, 3, 4, 4,
     4,
     4, 4, 5, 5, 5, 5, 6, 6, 6, 6, 6, 7, 7, 7, 7, 7, 7, 7, 7, 7, 7, 8 >>

\* 1.0/(1.0 + np.exp(-z)) of one number.
sigmoid1(z) == IF z <= -22 THEN 0
               ELSE IF z >= 22 THEN One
               ELSE SigmoidTable[z + 23]

\* ------------------------------------------------------------------ arrays
\* The outcome of an array expression that raises.
Err == <<>>

Rows(A) == Len(A)
Cols(A) == Len(A[1])
Shape(A) == IF A = Err THEN <<0, 0>> ELSE <<Rows(A), Cols(A)>>

\* np.zeros(shape)
Zeros(r, c) == <<>> \o [i \in 1..r |-> <<>> \o [j \in 1..c |-> 0]]

\* a column vector, shape (n, 1), from the sequence of its entries
Col(v) == <<>> \o [i \in 1..Len(v) |-> <<v[i]>>]

\* A.transpose()
Transpose(A) ==
  IF A = Err THEN Err
  ELSE <<>> \o [j \in 1..Cols(A) |-> <<>> \o [i \in 1..Rows(A) |-> A[i][j]]]

\* numpy broadcasting of two 2-d shapes
Broadcastable(A, B) ==
  /\ Rows(A) = Rows(B) \/ Rows(A) = 1 \/ Rows(B) = 1
  /\ Cols(A) = Cols(B) \/ Cols(A) = 1 \/ Cols(B) = 1

\* entry (i, j) of A stretched along its axes of length 1
At(A, i, j) ==
  A[IF Rows(A) = 1 THEN 1 ELSE i][IF Cols(A) = 1 THEN 1 ELSE j]

\* A + B, elementwise with broadcasting
ArrAdd(A, B) ==
  IF A = Err \/ B = Err THEN Err
  ELSE IF ~Broadcastable(A, B) THEN Err
  ELSE <<>> \o [i \in 1..Max(Rows(A), Rows(B)) |->
         <<>> \o [j \in 1..Max(Cols(A), Cols(B)) |->
                    FAdd(At(A, i, j), At(B, i, j))]]

\* A - B, elementwise with broadcasting
ArrSub(A, B) ==
  IF A = Err \/ B = Err THEN Err
  ELSE IF ~Broadcastable(A, B) THEN Err
  ELSE <<>> \o [i \in 1..Max(Rows(A), Rows(B)) |->
         <<>> \o [j \in 1..Max(Cols(A), Cols(B)) |->
                    FSub(At(A, i, j), At(B, i, j))]]

\* A * B, elementwise with broadcasting
ArrMul(A, B) ==
  IF A = Err \/ B = Err THEN Err
  ELSE IF ~Broadcastable(A, B) THEN Err
  ELSE <<>> \o [i \in 1..Max(Rows(A), Rows(B)) |->
         <<>> \o [j \in 1..Max(Cols(A), Cols(B)) |->
                    FMul(At(A, i, j), At(B, i, j))]]

\* scalar * array
Scale(q, A) ==
  IF A = Err THEN Err
  ELSE <<>> \o [i \in 1..Rows(A) |->
                 <<>> \o [j \in 1..Cols(A) |-> FMul(q, A[i][j])]]

RECURSIVE DotSum(_, _, _, _, _)
DotSum(A, B, i, j, k) ==
  IF k = 0 THEN 0 ELSE A[i][k] * B[k][j] + DotSum(A, B, i, j, k - 1)

\* np.dot(A, B) of 2-d arrays
Dot(A, B) ==
  IF A = Err \/ B = Err THEN Err
  ELSE IF Cols(A) # Rows(B) THEN Err
  ELSE <<>> \o [i \in 1..Rows(A) |->
         <<>> \o [j \in 1..Cols(B) |->
                    RDiv(DotSum(A, B, i, j, Cols(A)), One)]]

\* the array flattened in row-major order
RECURSIVE FlattenFrom(_, _)
FlattenFrom(A, i) ==
  IF i > Rows(A) THEN <<>> ELSE A[i] \o FlattenFrom(A, i + 1)

\* ArgMaxScan keeping the last occurrence of the largest
RECURSIVE ArgMaxScanLast(_, _)
ArgMaxScanLast(v, n) ==
  IF n = 1 THEN 0
  ELSE LET best == ArgMaxScanLast(v, n - 1)
       IN IF v[n] >= v[best + 1] THEN n - 1 ELSE best

\* index (from 0) of the first occurrence of the largest of v[1..n]
RECURSIVE ArgMaxScan(_, _)
ArgMaxScan(v, n) ==
  IF n = 1 THEN 0
  ELSE LET best == ArgMaxScan(v, n - 1)
       IN IF v[n] > v[best + 1] THEN n - 1 ELSE best

\* np.argmax(A)
argmax(A) == LET v == FlattenFrom(A, 1) IN ArgMaxScan(v, Len(v))

\* ----------------------------------------------------------- Python lists
\* l[i] with Python's indices: from 0, negative ones count from the end.
PyPos(l, i) == IF i < 0 THEN Len(l) + i + 1 ELSE i + 1
PyGet(l, i) == l[PyPos(l, i)]
\* l[i] = v
PySet(l, i, v) == [l EXCEPT ![PyPos(l, i)] = v]

\* ---------------------------------------------------------------- network
\* 1.0/(1.0 + np.exp(-z)), elementwise
sigmoid(z) ==
  IF z = Err THEN Err
  ELSE <<>> \o [i \in 1..Rows(z) |->
                 <<>> \o [j \in 1..Cols(z) |-> sigmoid1(z[i][j])]]

\* sigmoid(z) * (1 - sigmoid(z))
sigmoid_prime(z) ==
  ArrMul(sigmoid(z), ArrSub(<< <<One>> >>, sigmoid(z)))

cost_derivative(output_activations, y) == ArrSub(output_activations, y)

\* the loop of feedforward from transition t on
RECURSIVE FeedFrom(_, _, _, _)
FeedFrom(W, B, t, a) ==
  IF t > Len(B) \/ t > Len(W) THEN a
  ELSE FeedFrom(W, B, t + 1, sigmoid(ArrAdd(Dot(W[t], a), B[t])))

feedforward(W, B, a) == FeedFrom(W, B, 1, a)

\* np.zeros(a.shape) for every array a of the list
ZerosLike(l) ==
  <<>> \o [t \in 1..Len(l) |-> Zeros(Rows(l[t]), Cols(l[t]))]

\* the feedforward loop of backprop from transition t on: the lists
\* activations and zs after it
RECURSIVE ForwardCache(_, _, _, _, _)
ForwardCache(W, B, t, activations, zs) ==
  IF t > Len(B) \/ t > Len(W) THEN [activations |-> activations, zs |-> zs]
  ELSE LET z == ArrAdd(Dot(W[t], activations[Len(activations)]), B[t])
       IN ForwardCache(W, B, t + 1, Append(activations, sigmoid(z)),
                       Append(zs, z))

\* BackwardLoop reading weights[-l] where the code reads weights[-l+1]
RECURSIVE BackwardLoopOffByOne(_, _, _, _, _, _, _, _, _)
BackwardLoopOffByOne(W, nl, acts, zs, l, delta, nb, nw, written) ==
  IF l >= nl
  THEN [nabla_b |-> nb, nabla_w |-> nw, written |-> written]
  ELSE LET z == PyGet(zs, -l)
           sp == sigmoid_prime(z)
           d == ArrMul(Dot(Transpose(PyGet(W, -l)), delta), sp)
       IN BackwardLoopOffByOne(W, nl, acts, zs, l + 1, d,
                               PySet(nb, -l, d),
                               PySet(nw, -l,
                                     Dot(d, Transpose(PyGet(acts, -l - 1)))),
                               Append(written, PyPos(nb, -l)))

\* the backward loop of backprop, for l in range(l, num_layers); written is
\* the sequence of list positions assigned so far, in order
RECURSIVE BackwardLoop(_, _, _, _, _, _, _, _, _)
BackwardLoop(W, nl, activations, zs, l, delta, nabla_b, nabla_w, written) ==
  IF l >= nl
  THEN [nabla_b |-> nabla_b, nabla_w |-> nabla_w, written |-> written]
  ELSE LET z == PyGet(zs, -l)
           sp == sigmoid_prime(z)
           d == ArrMul(Dot(Transpose(PyGet(W, -l + 1)), delta), sp)
       IN BackwardLoop(W, nl, activations, zs, l + 1, d,
                       PySet(nabla_b, -l, d),
                       PySet(nabla_w, -l,
                             Dot(d, Transpose(PyGet(activations, -l - 1)))),
                       Append(written, PyPos(nabla_b, -l)))

\* whether a list of arrays holds the outcome of an expression that raised
AnyErr(l) == \E t \in 1..Len(l) : l[t] = Err

\* backprop(x, y): the lists (nabla_b, nabla_w), and whether the call raised
\* instead of returning them
backprop(W, B, nl, x, y) ==
  LET fw == ForwardCache(W, B, 1, <<x>>, <<>>)
      activations == fw.activations
      zs == fw.zs
      delta == ArrMul(cost_derivative(PyGet(activations, -1), y),
                      sigmoid_prime(PyGet(zs, -1)))
      nabla_b == PySet(ZerosLike(B), -1, delta)
      nabla_w == PySet(ZerosLike(W), -1,
                       Dot(delta, Transpose(PyGet(activations, -2))))
      g == BackwardLoop(W, nl, activations, zs, 2, delta, nabla_b, nabla_w,
                        <<PyPos(nabla_b, -1)>>)
  IN [nabla_b |-> g.nabla_b, nabla_w |-> g.nabla_w, written |-> g.written,
      raised |-> AnyErr(g.nabla_b) \/ AnyErr(g.nabla_w)]

\* the list test_results of evaluate: (argmax of the output, argmax of y),
\* or Err for an example whose forward pass raises
test_results(W, B, test_data) ==
  <<>> \o [n \in 1..Len(test_data) |->
     LET out == feedforward(W, B, test_data[n].x)
     IN IF out = Err THEN Err
        ELSE <<argmax(out), argmax(test_data[n].y)>>]

RECURSIVE SumMatches(_, _)
SumMatches(results, n) ==
  IF n = 0 THEN 0
  ELSE SumMatches(results, n - 1)
       + (IF results[n][1] = results[n][2] THEN 1 ELSE 0)

\* the outcome of evaluate(test_data) when a forward pass raises
Raised == -1

\* evaluate(test_data), accuracy=True
evaluate_accuracy(W, B, test_data) ==
  LET results == test_results(W, B, test_data)
  IN IF AnyErr(results) THEN Raised ELSE SumMatches(results, Len(results))

\* evaluate_raw listing the outputs last example first
evaluate_raw_reversed(W, B, test_data) ==
  LET results == test_results(W, B, test_data)
  IN IF AnyErr(results) THEN Err
     ELSE <<>> \o [n \in 1..Len(test_data) |->
                     feedforward(W, B,
                                 test_data[Len(test_data) + 1 - n].x)]

\* evaluate(test_data, accuracy=False)
evaluate_raw(W, B, test_data) ==
  LET results == test_results(W, B, test_data)
  IN IF AnyErr(results) THEN Err
     ELSE <<>> \o [n \in 1..Len(test_data) |->
                     feedforward(W, B, test_data[n].x)]

\* ------------------------------------------------------------------ inputs
\* Layer sizes tried: no hidden layer, one and two hidden layers, one and
\* two output neurons.
SizesSet == { <<2, 2>>, <<2, 1>>, <<2, 2, 2>>, <<1, 1, 1, 1>> }

\* Values np.random.randn may draw, as (p, q, u): weight (r, c) of transition
\* t is p when r + c + t is even and q otherwise; bias r of transition t is
\* u when r + t is even and -u otherwise.
InitParams == { <<16, -16, 0>>, <<-16, 16, 8>>, <<8, 8, 0>>, <<-8, 24, -8>> }

\* Learning rates 1.0 and 4.0.
LearningRates == { One, 4 * One }

\* the k-th unit vector of dimension d, times v, as a column
Unit(d, k, v) == Col([i \in 1..d |-> IF i = k THEN v ELSE 0])

\* Inputs of dimension d.
XVecs(d) == { Unit(d, k, One) : k \in 1..d } \cup { Unit(1, 1, -One) }

\* Targets of dimension d: one-hot, and 0 for a single output neuron.
YVecs(d) == { Unit(d, k, One) : k \in 1..d } \cup { Unit(1, 1, 0) }

\* An example whose x and y have the dimensions the layer sizes declare.
WellShaped(sz, e) ==
  /\ Shape(e.x) = <<sz[1], 1>>
  /\ Shape(e.y) = <<sz[Len(sz)], 1>>

\* Examples offered to a network of sizes sz: the well-shaped ones, and
\* ones whose x or y has one row too many or too few.
Examples(sz) ==
  LET n0 == sz[1]
      nL == sz[Len(sz)]
  IN { [x |-> x, y |-> y] : x \in { v \in XVecs(n0) : Rows(v) = n0 },
                             y \in { v \in YVecs(nL) : Rows(v) = nL } }
     \cup { [x |-> Unit(n0 + 1, 1, One), y |-> Unit(nL, 1, One)],
            [x |-> Unit(n0, 1, One), y |-> Unit(nL + 1, nL + 1, One)],
            [x |-> Unit(n0, 1, One), y |-> Unit(1, 1, One)] }

\* Training sets of at most n examples.
RECURSIVE ListsUpTo(_, _)
ListsUpTo(E, n) ==
  IF n = 0 THEN { <<>> }
  ELSE LET shorter == ListsUpTo(E, n - 1)
       IN shorter \cup { Append(l, e) : l \in shorter, e \in E }

TrainingSets(sz) == ListsUpTo(Examples(sz), MaxN)

\* ------------------------------------------------------------------- state
VARIABLES
  sizes,          \* self.sizes
  num_layers,     \* self.num_layers
  weights,        \* self.weights
  biases,         \* self.biases
  training_data,  \* SGD's argument
  learning_rate,  \* SGD's argument
  pc,             \* the statement of SGD to run next
  accuracy_new,   \* SGD's local, a fraction <<numerator, denominator>>
  accuracy_old,   \* SGD's local, likewise
  nabla_b,        \* SGD's accumulator
  nabla_w,        \* SGD's accumulator
  idx,            \* position of the for loop in training_data (from 1)
  true_positives, \* SGD's local
  result,         \* the value SGD returned
  epoch,          \* passes of the while loop begun
  updates,        \* executions of the update statements
  epoch_weights,  \* self.weights when the current pass began
  epoch_biases    \* self.biases when the current pass began

vars == << sizes, num_layers, weights, biases, training_data, learning_rate,
           pc, accuracy_new, accuracy_old, nabla_b, nabla_w, idx,
           true_positives, result, epoch, updates, epoch_weights,
           epoch_biases >>

\* Network.__init__: self.weights, with the draws of randn given by prm
InitWeights(sz, prm) ==
  <<>> \o [t \in 1..(Len(sz) - 1) |->
     <<>> \o [r \in 1..sz[t + 1] |->
        <<>> \o [c \in 1..sz[t] |-> IF (r + c + t) % 2 = 0 THEN prm[1] ELSE prm[2]]]]

\* Network.__init__: self.biases
InitBiases(sz, prm) ==
  <<>> \o [t \in 1..(Len(sz) - 1) |->
     <<>> \o [r \in 1..sz[t + 1] |->
        << IF (r + t) % 2 = 0 THEN prm[3] ELSE -prm[3] >>]]

\* The network as constructed, and SGD called on it.
Init ==
  /\ sizes \in SizesSet
  /\ num_layers = Len(sizes)
  /\ \E prm \in InitParams :
       /\ weights = InitWeights(sizes, prm)
       /\ biases = InitBiases(sizes, prm)
  /\ training_data \in TrainingSets(sizes)
  /\ learning_rate \in LearningRates
  /\ pc = "while"
  /\ accuracy_new = <<0, 1>>
  /\ accuracy_old = <<0, 1>>
  /\ nabla_b = <<>>
  /\ nabla_w = <<>>
  /\ idx = 0
  /\ true_positives = 0
  /\ result = <<>>
  /\ epoch = 0
  /\ updates = 0
  /\ epoch_weights = weights
  /\ epoch_biases = biases

\* ------------------------------------------------------------------- SGD
\* 0.8, the accuracy at which the while loop ends, as a fraction
TargetNum == 8
TargetDen == 10
\* 1 / 0.00001, the tolerance of the plateau test
ToleranceInv == 100000

\* the float a is below TargetNum / TargetDen
BelowTarget(a) == a[1] * TargetDen < TargetNum * a[2]

\* abs(a - b) < 0.00001
Plateau(a, b) ==
  Abs(a[1] * b[2] - b[1] * a[2]) * ToleranceInv < a[2] * b[2]

\* The value every entry of an array takes once inf * 0.0 is subtracted.
NaN == -1000000

NaNLike(l) ==
  <<>> \o [t \in 1..Len(l) |->
     <<>> \o [i \in 1..Rows(l[t]) |->
        <<>> \o [j \in 1..Cols(l[t]) |-> NaN]]]

HasNaN(l) ==
  \E t \in 1..Len(l) : \E i \in 1..Len(l[t]) :
     \E j \in 1..Len(l[t][i]) : l[t][i][j] = NaN

\* [a + d for a, d in zip(acc, delta)]
AddLists(acc, delta) ==
  <<>> \o [t \in 1..(IF Len(acc) <= Len(delta) THEN Len(acc) ELSE Len(delta)) |->
     ArrAdd(acc[t], delta[t])]

\* [p - (learning_rate/len(training_data)) * n for p, n in zip(params, nabla)]
Descend(params, nabla, lr, n) ==
  <<>> \o [t \in 1..(IF Len(params) <= Len(nabla) THEN Len(params) ELSE Len(nabla)) |->
     ArrSub(params[t], Scale(RDiv(lr, n), nabla[t]))]

\* the exception leaves SGD
Raise ==
  /\ pc' = "raised"
  /\ UNCHANGED << sizes, num_layers, weights, biases, training_data,
                  learning_rate, accuracy_new, accuracy_old, nabla_b,
                  nabla_w, idx, true_positives, result, epoch, updates,
                  epoch_weights, epoch_biases >>

\* SGD_while_enter with the accumulator created once, before the loop
SGD_while_enter_stale_accumulator ==
  /\ pc = "while"
  /\ BelowTarget(accuracy_new)
  /\ epoch < MaxEpochs
  /\ accuracy_old' = accuracy_new
  /\ nabla_b' = IF epoch = 0 THEN ZerosLike(biases) ELSE nabla_b
  /\ nabla_w' = IF epoch = 0 THEN ZerosLike(weights) ELSE nabla_w
  /\ idx' = 1
  /\ epoch' = epoch + 1
  /\ epoch_weights' = weights
  /\ epoch_biases' = biases
  /\ pc' = "for"
  /\ UNCHANGED << sizes, num_layers, weights, biases, training_data,
                  learning_rate, accuracy_new, true_positives, result,
                  updates >>

\* while accuracy_new < 0.8: the test holds; the pass begins, the
\* accumulator is zeroed
SGD_while_enter ==
  /\ pc = "while"
  /\ BelowTarget(accuracy_new)
  /\ epoch < MaxEpochs
  /\ accuracy_old' = accuracy_new
  /\ nabla_b' = ZerosLike(biases)
  /\ nabla_w' = ZerosLike(weights)
  /\ idx' = 1
  /\ epoch' = epoch + 1
  /\ epoch_weights' = weights
  /\ epoch_biases' = biases
  /\ pc' = "for"
  /\ UNCHANGED << sizes, num_layers, weights, biases, training_data,
                  learning_rate, accuracy_new, true_positives, result,
                  updates >>

\* while accuracy_new < 0.8: the test fails
SGD_while_exit ==
  /\ pc = "while"
  /\ ~BelowTarget(accuracy_new)
  /\ pc' = "return"
  /\ UNCHANGED << sizes, num_layers, weights, biases, training_data,
                  learning_rate, accuracy_new, accuracy_old, nabla_b,
                  nabla_w, idx, true_positives, result, epoch, updates,
                  epoch_weights, epoch_biases >>

\* SGD_for_body applying every example's gradient at once (online descent)
SGD_for_body_online ==
  /\ pc = "for"
  /\ idx <= Len(training_data)
  /\ LET g == backprop(weights, biases, num_layers,
                       training_data[idx].x, training_data[idx].y)
         nb == AddLists(nabla_b, g.nabla_b)
         nw == AddLists(nabla_w, g.nabla_w)
         w == Descend(weights, g.nabla_w, learning_rate, Len(training_data))
         b == Descend(biases, g.nabla_b, learning_rate, Len(training_data))
     IN IF g.raised \/ AnyErr(nb) \/ AnyErr(nw) \/ AnyErr(w) \/ AnyErr(b)
        THEN Raise
        ELSE /\ nabla_b' = nb
             /\ nabla_w' = nw
             /\ idx' = idx + 1
             /\ weights' = w
             /\ biases' = b
             /\ UNCHANGED << sizes, num_layers, training_data, learning_rate,
                             pc, accuracy_new, accuracy_old, true_positives,
                             result, epoch, updates, epoch_weights,
                             epoch_biases >>

\* one pass of "for x, y in training_data": backprop and accumulation
SGD_for_body ==
  /\ pc = "for"
  /\ idx <= Len(training_data)
  /\ LET g == backprop(weights, biases, num_layers,
                       training_data[idx].x, training_data[idx].y)
         nb == AddLists(nabla_b, g.nabla_b)
         nw == AddLists(nabla_w, g.nabla_w)
     IN IF g.raised \/ AnyErr(nb) \/ AnyErr(nw)
        THEN Raise
        ELSE /\ nabla_b' = nb
             /\ nabla_w' = nw
             /\ idx' = idx + 1
             /\ UNCHANGED << sizes, num_layers, weights, biases,
                             training_data, learning_rate, pc, accuracy_new,
                             accuracy_old, true_positives, result, epoch,
                             updates, epoch_weights, epoch_biases >>

\* SGD_update descending the biases along nabla_w
SGD_update_biases_from_nabla_w ==
  /\ pc = "for"
  /\ idx > Len(training_data)
  /\ Len(training_data) > 0
  /\ LET n == Len(training_data)
         w == Descend(weights, nabla_w, learning_rate, n)
         b == Descend(biases, nabla_w, learning_rate, n)
     IN IF AnyErr(w) \/ AnyErr(b)
        THEN Raise
        ELSE /\ weights' = w
             /\ biases' = b
             /\ updates' = updates + 1
             /\ pc' = "evaluate"
             /\ UNCHANGED << sizes, num_layers, training_data,
                             learning_rate, accuracy_new, accuracy_old,
                             nabla_b, nabla_w, idx, true_positives, result,
                             epoch, epoch_weights, epoch_biases >>

\* the for loop is exhausted: self.weights = ..., self.biases = ...
SGD_update ==
  /\ pc = "for"
  /\ idx > Len(training_data)
  /\ LET n == Len(training_data)
         w == Descend(weights, nabla_w, learning_rate, n)
         b == Descend(biases, nabla_b, learning_rate, n)
     IN IF n = 0
        THEN \* learning_rate / 0: ZeroDivisionError for a Python number;
             \* inf for a numpy scalar, and every parameter becomes nan
             \/ Raise
             \/ /\ weights' = NaNLike(weights)
                /\ biases' = NaNLike(biases)
                /\ updates' = updates + 1
                /\ pc' = "evaluate"
                /\ UNCHANGED << sizes, num_layers, training_data,
                                learning_rate, accuracy_new, accuracy_old,
                                nabla_b, nabla_w, idx, true_positives, result,
                                epoch, epoch_weights, epoch_biases >>
        ELSE IF AnyErr(w)
        THEN Raise
        ELSE /\ weights' = w
             /\ updates' = updates + 1
             /\ IF AnyErr(b)
                THEN biases' = biases /\ pc' = "raised"
                ELSE biases' = b /\ pc' = "evaluate"
             /\ UNCHANGED << sizes, num_layers, training_data,
                             learning_rate, accuracy_new, accuracy_old,
                             nabla_b, nabla_w, idx, true_positives, result,
                             epoch, epoch_weights, epoch_biases >>

\* true_positives = self.evaluate(training_data);
\* accuracy_new = float(true_positives)/len(training_data)
SGD_evaluate ==
  /\ pc = "evaluate"
  /\ LET tp == evaluate_accuracy(weights, biases, training_data)
     IN IF tp = Raised
        THEN Raise
        ELSE /\ true_positives' = tp
             /\ IF Len(training_data) = 0
                THEN accuracy_new' = accuracy_new /\ pc' = "raised"
                ELSE accuracy_new' = <<tp, Len(training_data)>> /\ pc' = "if"
             /\ UNCHANGED << sizes, num_layers, weights, biases,
                             training_data, learning_rate, accuracy_old,
                             nabla_b, nabla_w, idx, result, epoch, updates,
                             epoch_weights, epoch_biases >>

\* SGD_if without the break
SGD_if_never_breaks ==
  /\ pc = "if"
  /\ pc' = "while"
  /\ UNCHANGED << sizes, num_layers, weights, biases, training_data,
                  learning_rate, accuracy_new, accuracy_old, nabla_b,
                  nabla_w, idx, true_positives, result, epoch, updates,
                  epoch_weights, epoch_biases >>

\* SGD_if breaking after every epoch
SGD_if_always_breaks ==
  /\ pc = "if"
  /\ pc' = "return"
  /\ UNCHANGED << sizes, num_layers, weights, biases, training_data,
                  learning_rate, accuracy_new, accuracy_old, nabla_b,
                  nabla_w, idx, true_positives, result, epoch, updates,
                  epoch_weights, epoch_biases >>

\* if abs(accuracy_new - accuracy_old) < 0.00001: break
SGD_if ==
  /\ pc = "if"
  /\ pc' = IF Plateau(accuracy_new, accuracy_old) THEN "return" ELSE "while"
  /\ UNCHANGED << sizes, num_layers, weights, biases, training_data,
                  learning_rate, accuracy_new, accuracy_old, nabla_b,
                  nabla_w, idx, true_positives, result, epoch, updates,
                  epoch_weights, epoch_biases >>

\* return self.evaluate(training_data, accuracy=False)
SGD_return ==
  /\ pc = "return"
  /\ LET r == evaluate_raw(weights, biases, training_data)
     IN IF r = Err
        THEN Raise
        ELSE /\ result' = r
             /\ pc' = "done"
             /\ UNCHANGED << sizes, num_layers, weights, biases,
                             training_data, learning_rate, accuracy_new,
                             accuracy_old, nabla_b, nabla_w, idx,
                             true_positives, epoch, updates, epoch_weights,
                             epoch_biases >>

Next ==
  \/ SGD_while_enter
  \/ SGD_while_exit
  \/ SGD_for_body
  \/ SGD_update
  \/ SGD_evaluate
  \/ SGD_if
  \/ SGD_return

Spec == Init /\ [][Next]_vars

\* ================================================================= claims
N == Len(training_data)

\* every example has the dimensions the layer sizes declare
AllWellShaped ==
  \A n \in 1..N : WellShaped(sizes, training_data[n])

\* an epoch has been run to its evaluation and SGD has not raised
AfterEpoch == pc \in {"if", "while", "return", "done"} /\ epoch >= 1

\* the epoch just evaluated meets one of the two exit conditions
StopCondition ==
  \/ ~BelowTarget(accuracy_new)
  \/ Plateau(accuracy_new, accuracy_old)

\* ---------------------------------------------------------------------- C1
\* C1: SGD leaves its loop only after an epoch has been accumulated,
\* applied and evaluated; it leaves after the first epoch whose accuracy is
\* >= 0.8 or within 1e-5 of the previous epoch's (0 before the first), never
\* after an epoch meeting neither condition, and never before one update.
C1_StopsOnlyAfterStopEpoch ==
  [][ /\ (pc' = "return" /\ pc # "return") =>
            /\ pc \in {"if", "while"}
            /\ epoch >= 1 /\ updates = epoch
            /\ accuracy_new = <<true_positives, N>>
            /\ StopCondition
      /\ (AfterEpoch /\ pc \in {"if", "while"} /\ StopCondition) =>
            /\ pc' \in {"while", "return"}
            /\ epoch' = epoch
            /\ pc = "while" => pc' = "return"
      /\ (pc = "if" /\ Plateau(accuracy_new, accuracy_old)) => pc' = "return"
      /\ epoch' = epoch + 1 =>
            /\ pc = "while"
            /\ epoch = 0 \/ ~StopCondition
            /\ epoch = 0 => accuracy_old' = <<0, 1>>
      /\ pc' \in {"return", "done"} => updates' >= 1 ]_vars

\* a run that continued after one epoch and stopped after a later one
C1_Witness ==
  /\ pc = "done" /\ epoch >= 2 /\ updates = epoch
  /\ weights # epoch_weights

\* ---------------------------------------------------------------------- C2
\* the sum over training_data[1..n] of the backprop gradients under (W, B),
\* starting from zero
RECURSIVE TotalGradient(_, _, _, _, _)
TotalGradient(W, B, nl, data, n) ==
  IF n = 0 THEN [nabla_b |-> ZerosLike(B), nabla_w |-> ZerosLike(W)]
  ELSE LET rest == TotalGradient(W, B, nl, data, n - 1)
           g == backprop(W, B, nl, data[n].x, data[n].y)
       IN [nabla_b |-> <<>> \o [t \in 1..Len(B) |->
                                  ArrAdd(rest.nabla_b[t], g.nabla_b[t])],
           nabla_w |-> <<>> \o [t \in 1..Len(W) |->
                                  ArrAdd(rest.nabla_w[t], g.nabla_w[t])]]

\* C2: after every epoch each weight and bias is its start-of-epoch value
\* minus (learning_rate / N) times the sum over all N examples of the
\* gradient backprop gives under the start-of-epoch parameters; nothing of
\* an earlier epoch's accumulator is in the update.
C2_FullBatchUpdate ==
  (AfterEpoch /\ N > 0) =>
     LET total == TotalGradient(epoch_weights, epoch_biases, num_layers,
                                training_data, N)
         rate == RDiv(learning_rate, N)
     IN /\ Len(weights) = Len(epoch_weights)
        /\ Len(biases) = Len(epoch_biases)
        /\ \A t \in 1..Len(weights) :
             weights[t] =
               ArrSub(epoch_weights[t], Scale(rate, total.nabla_w[t]))
        /\ \A t \in 1..Len(biases) :
             biases[t] =
               ArrSub(epoch_biases[t], Scale(rate, total.nabla_b[t]))

\* a second epoch over two examples, with a non-zero accumulated gradient,
\* has moved the parameters
C2_Witness ==
  /\ pc = "if" /\ epoch >= 2 /\ N >= 2
  /\ weights # epoch_weights
  /\ nabla_w # ZerosLike(nabla_w)

\* ---------------------------------------------------------------------- C3
\* C3: weights and biases change only in the update statements, once per
\* epoch and after the last example's gradient is in the accumulator; the
\* backprop calls of an epoch and the forward passes of its evaluation all
\* read the parameters of one update.
C3_ParametersChangeOnlyInUpdate ==
  [][ /\ (weights' # weights \/ biases' # biases) =>
            /\ pc = "for" /\ idx = N + 1
            /\ updates = epoch - 1 /\ updates' = epoch
      /\ pc' = "for" =>
            /\ weights' = epoch_weights' /\ biases' = epoch_biases'
            /\ updates' = epoch' - 1
      /\ (pc' \in {"evaluate", "if", "while", "return", "done"}
          /\ epoch' >= 1) => updates' = epoch' ]_vars

\* an epoch over two examples has been applied in one update
C3_Witness ==
  /\ pc = "evaluate" /\ N >= 2 /\ idx = N + 1
  /\ weights # epoch_weights /\ updates = epoch

\* ---------------------------------------------------------------------- C4
\* some parameters of the family classify every example of the training set
Separable ==
  /\ N >= 1
  /\ AllWellShaped
  /\ \E prm \in InitParams :
       evaluate_accuracy(InitWeights(sizes, prm), InitBiases(sizes, prm),
                         training_data) = N

C5_EmptySetRejectedBeforeLoop ==
  N = 0 =>
     /\ epoch = 0
     /\ pc \in {"while", "raised"}
     /\ weights = epoch_weights /\ biases = epoch_biases
     /\ ~HasNaN(weights) /\ ~HasNaN(biases)

\* ---------------------------------------------------------------------- C6
\* C6 as claimed: an example whose x or y disagrees with the layer sizes
\* makes backprop raise; SGD never gets past it, so its gradient is never
\* added to the accumulator nor applied.
C6_ShapeMismatchRaises ==
  \A n \in 1..N :
     ~WellShaped(sizes, training_data[n]) =>
        /\ epoch >= 1 => idx <= n
        /\ updates = 0

\* ---------------------------------------------------------------------- C7
\* the column vector's entries
Entries(A) == [i \in 1..Rows(A) |-> A[i][1]]

\* the lowest index (from 0) at which the column vector A is largest
LowestLargest(A) ==
  CHOOSE k \in 0..(Rows(A) - 1) :
     /\ \A i \in 1..Rows(A) : Entries(A)[i] <= Entries(A)[k + 1]
     /\ \A i \in 1..k : Entries(A)[i] < Entries(A)[k + 1]

\* the examples whose predicted class is the labelled class
Hits(W, B, data) ==
  { n \in 1..Len(data) :
      LowestLargest(feedforward(W, B, data[n].x)) = LowestLargest(data[n].y) }

\* C7: evaluate in accuracy mode counts exactly the examples whose output
\* is largest at the index where the target is largest, the lowest index
\* winning ties on both sides; the count is in 0..N and the accuracy SGD
\* derives from it is in [0, 1].
C7_AccuracyCountsLowestIndexMatches ==
  (AfterEpoch /\ N > 0) =>
     /\ true_positives = Cardinality(Hits(weights, biases, training_data))
     /\ true_positives \in 0..N
     /\ accuracy_new = <<true_positives, N>>
     /\ 0 <= accuracy_new[1] /\ accuracy_new[1] <= accuracy_new[2]

\* an evaluation in which an output is largest at two indices at once, and
\* which counted one example and missed another
C7_Witness ==
  /\ pc = "if" /\ N = 2 /\ true_positives = 1
  /\ \E n \in 1..N :
       LET out == feedforward(weights, biases, training_data[n].x)
       IN /\ Rows(out) = 2 /\ out[1] = out[2]
          /\ LowestLargest(training_data[n].y) = 0

\* ---------------------------------------------------------------------- C8
\* C8: what SGD returns is the list of forward-pass outputs, one per
\* example and in input order, computed with the parameters of the last
\* update: the parameters whose accuracy ended the loop.
C8_ReturnsRawOutputs ==
  pc = "done" =>
     /\ Len(result) = N
     /\ \A n \in 1..N :
          /\ result[n] = feedforward(weights, biases, training_data[n].x)
          /\ Rows(result[n]) = Rows(biases[Len(biases)])
     /\ true_positives =
          Cardinality({ n \in 1..N :
             LowestLargest(result[n]) = LowestLargest(training_data[n].y) })
     /\ accuracy_new = <<true_positives, N>>
     /\ updates = epoch

\* SGD returned two different outputs for two examples, after an update that
\* changed the parameters
C8_Witness ==
  /\ pc = "done" /\ N = 2
  /\ result[1] # result[2]
  /\ weights # epoch_weights

\* ---------------------------------------------------------------------- C9
\* the activations of layers 0..L and the pre-activations of layers 1..L,
\* indexed from the input
ActivationOf(W, B, x, l) ==
  ForwardCache(W, B, 1, <<x>>, <<>>).activations[l + 1]

PreActivationOf(W, B, x, l) ==
  ForwardCache(W, B, 1, <<x>>, <<>>).zs[l]

\* the error of transition l, by the chain rule from the output backward
RECURSIVE DeltaOf(_, _, _, _, _)
DeltaOf(W, B, x, y, l) ==
  IF l = Len(W)
  THEN ArrMul(ArrSub(ActivationOf(W, B, x, l), y),
              sigmoid_prime(PreActivationOf(W, B, x, l)))
  ELSE ArrMul(Dot(Transpose(W[l + 1]), DeltaOf(W, B, x, y, l + 1)),
              sigmoid_prime(PreActivationOf(W, B, x, l)))

====
